---------------------------- MODULE Spec2Model ----------------------------
(***************************************************************************)
(* A model of the AMQP transporter of moleculer                            *)
(* (src/transporters/amqp.js, class AmqpTransporter).                      *)
(*                                                                         *)
(* The adapter's fields (connection, channel, bindings, connected, opts),  *)
(* the broker objects it talks to and every asynchronous call in flight    *)
(* (connect, disconnect, subscribe, the service-queue declarations of an   *)
(* INFO publish, the message handlers of acknowledging consumers) are the  *)
(* state.  JavaScript runs each callback to completion, so one action is   *)
(* one callback: the synchronous part of a method, or one continuation of  *)
(* a promise chain.  The broker library (amqplib), the message handler     *)
(* and the timing of every reply and event are the environment.            *)
(***************************************************************************)
EXTENDS Integers, Sequences, FiniteSets, TLC

\* ------------------------------------------------------------------ bounds
MaxConnects    == 2     \* connect() calls in one behaviour
MaxSessions    == 1     \* connect() calls where one session is followed
MaxDisconnects == 2     \* disconnect() calls in one behaviour
MaxSubs        == 2     \* subscribe() calls in one behaviour
MaxMsgs        == 1     \* messages delivered to acknowledging consumers
MaxInfos       == 2     \* untargeted INFO publishes (topology announcements)
MaxGroups      == 2     \* groups in the groups list of an EVENT
MaxCloses      == 1     \* disconnect() calls of a reconnecting adapter

\* --------------------------------------------------------------- constants
\* null, where a handle (a connection or channel number, from 1) is expected,
\* and null where a node id or a target (a string) is expected.
NULL == 0
NIL  == "nil"

\* ../packets (not part of the sources at hand): the packet categories, named
\* as the specification names them.
PACKET_REQUEST    == "REQUEST"
PACKET_RESPONSE   == "RESPONSE"
PACKET_UNKNOW     == "UNKNOWN"
PACKET_EVENT      == "EVENT"
PACKET_DISCOVER   == "DISCOVER"
PACKET_INFO       == "INFO"
PACKET_DISCONNECT == "DISCONNECT"
PACKET_HEARTBEAT  == "HEARTBEAT"
PACKET_PING       == "PING"
PACKET_PONG       == "PONG"

Categories ==
    { PACKET_REQUEST, PACKET_RESPONSE, PACKET_UNKNOW, PACKET_EVENT,
      PACKET_DISCOVER, PACKET_INFO, PACKET_DISCONNECT, PACKET_HEARTBEAT,
      PACKET_PING, PACKET_PONG }

\* ./base (not part of the sources at hand): the topic prefix and this node.
Prefix == "MOL"
NodeID == "A"

\* The time-to-live of the internal packet types (amqp.js line 215) and the
\* default of opts.amqp.eventTimeToLive (line 56).
InternalTtl     == 5000
DefaultEventTtl == 5000

\* A JavaScript object with optional keys is a function on the keys it has.
EmptyObj == [k \in {} |-> 0]

\* Object.assign(target, source): the source's keys win.
ObjectAssign(target, source) ==
    [k \in DOMAIN target \cup DOMAIN source |->
        IF k \in DOMAIN source THEN source[k] ELSE target[k]]

\* The configurations the constructor can leave in this.opts.amqp: an event
\* time-to-live that is any number (default 5000) and queue option overrides.
EventTtlValues == {0, 1000, DefaultEventTtl}
QueueOptionValues ==
    { EmptyObj, [messageTtl |-> 1000], [autoDelete |-> FALSE],
      [durable |-> TRUE] }
DefaultOpts == [eventTimeToLive |-> DefaultEventTtl, queueOptions |-> EmptyObj]

VARIABLES
    opts,        \* this.opts.amqp: [eventTimeToLive, queueOptions]
    optQuery,    \* the last _getQueueOptions call: [key, threw, value]
    connection,  \* this.connection: NULL or the number of a connection
    channel,     \* this.channel: NULL or the number of a channel
    bindings,    \* this.bindings: [isNull, list], list of <<queue, exchange, key>>
    connected,   \* this.connected
    conn,        \* per connect() call: its promise and the broker objects it opened
    disc,        \* per disconnect() call: where its promise chain stands
    unbinds,     \* per recorded binding: how often unbindQueue was issued for it
    sub,         \* per subscribe() call: where its promise chain stands
    pub,         \* the last publish() call: its packet, broker calls and result
    info,        \* per untargeted INFO publish: its service-queue declarations
    msg          \* per delivered message: its handler and acknowledgments

vars == <<opts, optQuery, connection, channel, bindings, connected, conn,
          disc, unbinds, sub, pub, info, msg>>

cfgVars  == <<opts, optQuery>>
pubVars  == <<pub, info, msg>>
lifeVars == <<connection, channel, bindings, connected, conn, disc, unbinds, sub>>

\* ------------------------------------------------------------ pure helpers

\* Transporter.getTopicName(cmd, nodeID) of ./base.
getTopicName(cmd, nodeID) ==
    Prefix \o "." \o cmd \o (IF nodeID # NIL THEN "." \o nodeID ELSE "")

\* The switch of _getQueueOptions: the options of a packet type, or none
\* (packetOptions stays undefined) when no case matches.
PacketOptionsBug(packetType, o) ==
    CASE packetType \in {PACKET_REQUEST, PACKET_RESPONSE, PACKET_INFO} ->
            [defined |-> TRUE, value |-> EmptyObj]
      [] packetType \in {PACKET_DISCOVER, PACKET_DISCONNECT, PACKET_UNKNOW,
                         PACKET_HEARTBEAT, PACKET_PING, PACKET_PONG} ->
            [defined |-> TRUE,
             value |-> [messageTtl |-> InternalTtl, autoDelete |-> TRUE]]
      [] packetType = PACKET_EVENT ->
            [defined |-> TRUE,
             value |-> [messageTtl |-> o.eventTimeToLive, autoDelete |-> TRUE]]
      [] packetType = PACKET_EVENT \o "LB" ->
            [defined |-> TRUE, value |-> EmptyObj]
      [] OTHER -> [defined |-> FALSE, value |-> EmptyObj]

PacketOptions(packetType, o) ==
    CASE packetType \in {PACKET_REQUEST, PACKET_RESPONSE} ->
            [defined |-> TRUE, value |-> EmptyObj]
      [] packetType \in {PACKET_DISCOVER, PACKET_DISCONNECT, PACKET_UNKNOW,
                         PACKET_INFO, PACKET_HEARTBEAT, PACKET_PING,
                         PACKET_PONG} ->
            [defined |-> TRUE,
             value |-> [messageTtl |-> InternalTtl, autoDelete |-> TRUE]]
      [] packetType = PACKET_EVENT ->
            [defined |-> TRUE,
             value |-> [messageTtl |-> o.eventTimeToLive, autoDelete |-> TRUE]]
      [] packetType = PACKET_EVENT \o "LB" ->
            [defined |-> TRUE, value |-> EmptyObj]
      [] OTHER -> [defined |-> FALSE, value |-> EmptyObj]

\* _getQueueOptions(packetType) under configuration o: Object.assign of the
\* packet options and the configured overrides.  Object.assign throws a
\* TypeError when its target is undefined.
GetQueueOptions(packetType, o) ==
    LET p == PacketOptions(packetType, o)
    IN  IF p.defined
        THEN [threw |-> FALSE, value |-> ObjectAssign(p.value, o.queueOptions)]
        ELSE [threw |-> TRUE, value |-> EmptyObj]

\* The keys _getQueueOptions is asked about: every category, the synthetic
\* key of the code (EVENT + "LB"), the same for REQUEST, and the two keys as
\* the specification spells them.
OptionKeys ==
    Categories \cup { PACKET_EVENT \o "LB", PACKET_REQUEST \o "LB",
                      "EVENT-LB", "REQUEST-LB" }

\* const queue = `${this.prefix}.${PACKET_REQUEST}B.${action}` (lines 347, 411).
ActionQueueName(action) == Prefix \o "." \o PACKET_REQUEST \o "B." \o action

\* const queue = `${this.prefix}.${PACKET_EVENT}B.${group}.${event}` (lines
\* 361, 397).
GroupQueueName(group, event) ==
    Prefix \o "." \o PACKET_EVENT \o "B." \o group \o "." \o event

\* ---------------------------------------------------------- initial state
ConnectIds    == 1..MaxConnects
SessionIds    == 1..MaxSessions
DisconnectIds == 1..MaxDisconnects
CloseIds      == 1..MaxCloses
SubscribeIds  == 1..MaxSubs

\* The groups field of a payload: null, or a list of group names.
NoGroups == [isNull |-> TRUE, list |-> << >>]
GroupList(l) == [isNull |-> FALSE, list |-> l]

InfoIds       == 1..MaxInfos
MsgIds        == 1..MaxMsgs

\* The targets, group lists and action names of the packets published.
Targets     == {NIL, "B"}
GroupNames  == {"g1", "g2"}
GroupValues ==
    {NoGroups} \cup
    { GroupList(l) : l \in UNION { [1..n -> GroupNames] : n \in 0..MaxGroups } }
ActionNames == {"sum"}

\* The subscriptions the node makes in the model: a broadcast category and a
\* node-addressed one, each with this node's id or with none.
SubscribeCmds    == {PACKET_INFO, PACKET_RESPONSE}
BroadcastCmds    == {PACKET_INFO}
SubscribeNodeIDs == {NIL, NodeID}

\* A connect() call that has not been made.  conn and chan are the states of
\* the broker connection and channel the call opens: "none", "open", "closed";
\* listening tells whether the channel's event handlers are registered, and
\* after where the promise of onConnected() stands: "none", "pending", "done".
IdleConnect ==
    [pc |-> "idle", promise |-> "none", conn |-> "none", chan |-> "none",
     listening |-> FALSE, after |-> "none"]

\* A disconnect() call that has not been made.
IdleDisconnect ==
    [pc |-> "idle", pending |-> {}, target |-> NULL, failed |-> FALSE,
     chanClose |-> FALSE, connClose |-> FALSE, cleared |-> FALSE,
     early |-> FALSE]

\* A subscribe() call that has not been made.  pending holds the broker calls
\* issued and not yet answered, target the channel they were issued on;
\* consumer tells whether the consumer of the call is attached at the broker.
IdleSubscribe ==
    [pc |-> "idle", cmd |-> "", nodeID |-> NIL, pending |-> {}, target |-> NULL,
     queue |-> "", options |-> EmptyObj, consumer |-> FALSE]

\* The packets publish() is given.  Only an EVENT carries groups and an event
\* name, only a REQUEST an action name.
Packets ==
    { [type |-> t, target |-> tg,
       groups |-> IF t = PACKET_EVENT THEN g ELSE NoGroups,
       action |-> IF t = PACKET_REQUEST THEN a ELSE "",
       event  |-> IF t = PACKET_EVENT THEN "user.created" ELSE ""] :
      t \in Categories, tg \in Targets, g \in GroupValues, a \in ActionNames }

\* No publish() call yet.
NoPublish ==
    [called |-> FALSE,
     packet |-> [type |-> "", target |-> NIL, groups |-> NoGroups,
                 action |-> "", event |-> ""],
     on |-> NULL, calls |-> << >>, result |-> "none"]

\* broker.getLocalNodeInfo().services: one service with an action and an
\* event that configures no group.
LocalServices ==
    << [name |-> "math", actions |-> {"sum"},
        events |-> {[name |-> "user.created", group |-> NIL]}] >>

\* const group = service.events[event].group || service.name (line 360).
EventGroup(service, e) == IF e.group # NIL THEN e.group ELSE service.name

\* The queues _makeServiceSpecificSubscriptions declares (lines 339-369):
\* one per action, with the REQUEST options, and one per event and its group
\* (the configured group, else the service name), with the EVENT + "LB"
\* options; the packet type its consumer hands to the message handler and
\* the needAck its consumer is built with (lines 351, 365).
ServiceQueues ==
    UNION { { [queue |-> ActionQueueName(a), cmd |-> PACKET_REQUEST,
               optionsKey |-> PACKET_REQUEST,
               needAck |-> TRUE] : a \in LocalServices[n].actions }
            \cup
            { [queue |-> GroupQueueName(EventGroup(LocalServices[n], e), e.name),
               cmd |-> PACKET_EVENT,
               optionsKey |-> PACKET_EVENT \o "LB",
               needAck |-> TRUE] : e \in LocalServices[n].events }
          : n \in 1..Len(LocalServices) }

ServiceQueueNames == { r.queue : r \in ServiceQueues }

\* An untargeted INFO publish that has not been made.  q is the state of each
\* service queue's declaration, on the channel its consume was issued on.
IdleInfo ==
    [pc |-> "idle", q |-> [n \in ServiceQueueNames |-> "none"],
     on |-> [n \in ServiceQueueNames |-> NULL]]

\* A message that has not been delivered.
IdleMsg ==
    [pc |-> "idle", needAck |-> FALSE, kind |-> "none", result |-> "none",
     from |-> NULL, acks |-> 0, nacks |-> 0, ackOn |-> NULL, nackOn |-> NULL]

\* No _getQueueOptions call yet.
NoQuery == [key |-> "", threw |-> FALSE, value |-> EmptyObj]

\* The constructor (lines 46-76).
InitAdapter ==
    /\ connection = NULL
    /\ channel = NULL
    /\ bindings = [isNull |-> FALSE, list |-> << >>]
    /\ connected = FALSE
    /\ conn = [k \in ConnectIds |-> IdleConnect]
    /\ disc = [d \in DisconnectIds |-> IdleDisconnect]
    /\ unbinds = << >>
    /\ sub = [s \in SubscribeIds |-> IdleSubscribe]
    /\ pub = NoPublish
    /\ info = [i \in InfoIds |-> IdleInfo]
    /\ msg = [m \in MsgIds |-> IdleMsg]
    /\ optQuery = NoQuery

Init ==
    /\ opts = DefaultOpts
    /\ InitAdapter

\* --------------------------------------------------------------- connect()

\* reject(err) of the promise of connect() call k: a settled promise stays.
Reject(c, k) ==
    [c EXCEPT ![k].promise = IF @ = "pending" THEN "rejected" ELSE @]

\* resolve() of the promise of connect() call k.
Resolve(c, k) ==
    [c EXCEPT ![k].promise = IF @ = "pending" THEN "resolved" ELSE @]

\* connect() is called: amqp.connect(url) is issued (lines 83-93).
ConnectCall(k) ==
    /\ conn[k].pc = "idle"
    /\ \A j \in ConnectIds : j < k => conn[j].pc # "idle"
    /\ conn' = [conn EXCEPT ![k].pc = "connecting", ![k].promise = "pending"]
    /\ UNCHANGED <<cfgVars, pubVars, connection, channel, bindings, connected,
                   disc, unbinds, sub>>

\* amqp.connect resolves (lines 94-121): the connection is stored, its event
\* handlers are registered and createChannel() is issued.
ConnectOk(k) ==
    /\ conn[k].pc = "connecting"
    /\ connection' = k
    /\ conn' = [conn EXCEPT ![k].pc = "creating", ![k].conn = "open"]
    /\ UNCHANGED <<cfgVars, pubVars, channel, bindings, connected, disc, unbinds, sub>>

\* amqp.connect rejects (lines 159-164).
ConnectFail(k) ==
    /\ conn[k].pc = "connecting"
    /\ connected' = FALSE
    /\ conn' = Reject([conn EXCEPT ![k].pc = "failed"], k)
    /\ UNCHANGED <<cfgVars, pubVars, connection, channel, bindings, disc, unbinds, sub>>

\* The broker answers createChannel: the channel exists, the promise of
\* createChannel() is resolved and its continuation is still to run.
CreateChannelOk(k) ==
    /\ conn[k].pc = "creating"
    /\ conn[k].conn = "open"
    /\ conn' = [conn EXCEPT ![k].pc = "channelReady", ![k].chan = "open"]
    /\ UNCHANGED <<cfgVars, pubVars, connection, channel, bindings, connected,
                   disc, unbinds, sub>>

\* The continuation of createChannel() (lines 122-150), whatever has become
\* of the channel and its connection since the answer: the channel is
\* stored, onConnected() marks the adapter connected and its promise is
\* awaited, channel.prefetch is called and, unless it throws, the channel's
\* event handlers are registered.
ChannelCreated(k, prefetchThrows) ==
    /\ conn[k].pc = "channelReady"
    /\ channel' = k
    /\ connected' = TRUE
    /\ conn' = [conn EXCEPT ![k].pc = IF prefetchThrows THEN "prefetchThrew"
                                                        ELSE "created",
                            ![k].after = "pending",
                            ![k].listening = ~prefetchThrows]
    /\ UNCHANGED <<cfgVars, pubVars, connection, bindings, disc, unbinds, sub>>

\* The promise of onConnected() resolves: .then(resolve) (line 124).
AfterConnectOk(k) ==
    /\ conn[k].after = "pending"
    /\ conn' = Resolve([conn EXCEPT ![k].after = "done"], k)
    /\ UNCHANGED <<cfgVars, pubVars, connection, channel, bindings, connected,
                   disc, unbinds, sub>>

\* The catch of the continuation (lines 152-157), after channel.prefetch
\* threw.
ChannelCreatedCatch(k) ==
    /\ conn[k].pc = "prefetchThrew"
    /\ connected' = FALSE
    /\ conn' = Reject([conn EXCEPT ![k].pc = "failed"], k)
    /\ UNCHANGED <<cfgVars, pubVars, connection, channel, bindings, disc, unbinds, sub>>

\* createChannel rejects (lines 152-157).
CreateChannelFail(k) ==
    /\ conn[k].pc = "creating"
    /\ connected' = FALSE
    /\ conn' = Reject([conn EXCEPT ![k].pc = "failed"], k)
    /\ UNCHANGED <<cfgVars, pubVars, connection, channel, bindings, disc, unbinds, sub>>

\* The connection's "error" handler (lines 100-104).
ConnectionError(k) ==
    /\ conn[k].conn = "open"
    /\ connected' = FALSE
    /\ conn' = Reject(conn, k)
    /\ UNCHANGED <<cfgVars, pubVars, connection, channel, bindings, disc, unbinds, sub>>

\* The channel's "error" handler (lines 140-144), once it is registered.
ChannelError(k) ==
    /\ conn[k].chan = "open"
    /\ conn[k].listening
    /\ connected' = FALSE
    /\ conn' = Reject(conn, k)
    /\ UNCHANGED <<cfgVars, pubVars, connection, channel, bindings, disc, unbinds, sub>>

\* Channel c closes.  Its "close" handler (lines 131-139), when it is
\* registered, clears this.channel, whichever channel that holds, and
\* rejects the promise of the connect() call that opened c.
ChannelClosed(cn, c) ==
    Reject([cn EXCEPT ![c].chan = "closed"], c)

\* The broker closes channel k.
ChannelClose(k) ==
    /\ conn[k].chan = "open"
    /\ IF conn[k].listening
       THEN /\ connected' = FALSE
            /\ channel' = NULL
            /\ conn' = ChannelClosed(conn, k)
       ELSE /\ conn' = [conn EXCEPT ![k].chan = "closed"]
            /\ UNCHANGED <<connected, channel>>
    /\ UNCHANGED <<cfgVars, pubVars, connection, bindings, disc, unbinds, sub>>

\* Connection k closes.  The library closes the connection's channel first,
\* so the channel's "close" handler (lines 131-139) runs if the channel was
\* open and the handler registered, then the connection's (lines 105-112).
ConnectionClosed(cn, ch, k) ==
    [channel   |-> IF cn[k].chan = "open" /\ cn[k].listening THEN NULL ELSE ch,
     connected |-> FALSE,
     conn      |-> Reject([cn EXCEPT ![k].conn = "closed",
                                     ![k].chan = IF @ = "open" THEN "closed" ELSE @], k)]

\* The broker closes connection k.
ConnectionClose(k) ==
    /\ conn[k].conn = "open"
    /\ LET r == ConnectionClosed(conn, channel, k)
       IN  /\ connected' = r.connected
           /\ channel' = r.channel
           /\ conn' = r.conn
    /\ UNCHANGED <<cfgVars, pubVars, connection, bindings, disc, unbinds, sub>>

\* ------------------------------------------------------------ disconnect()

\* this.bindings.map(binding => this.channel.unbindQueue(...binding)):
\* one unbindQueue is issued for every recorded binding (line 180).
IssueUnbinds(u, b) == [i \in 1..Len(b) |-> u[i] + 1]

\* disconnect() is called (lines 178-190): with a connection, a channel and
\* a binding list it issues the unbinds; otherwise it returns undefined.
DisconnectCall(d) ==
    /\ disc[d].pc = "idle"
    /\ \A j \in DisconnectIds : j < d => disc[j].pc # "idle"
    /\ IF connection # NULL /\ channel # NULL /\ ~bindings.isNull
       THEN /\ unbinds' = IssueUnbinds(unbinds, bindings.list)
            /\ disc' = [disc EXCEPT ![d].pc = "unbinding",
                                    ![d].pending = 1..Len(bindings.list),
                                    ![d].target = channel]
       ELSE /\ disc' = [disc EXCEPT ![d].pc = "noop"]
            /\ UNCHANGED unbinds
    /\ UNCHANGED <<cfgVars, pubVars, connection, channel, bindings, connected,
                   conn, sub>>

\* An unbindQueue of disconnect() call d succeeds; the channel it was issued
\* on is still open.
UnbindOk(d, i) ==
    /\ disc[d].pc = "unbinding"
    /\ i \in disc[d].pending
    /\ conn[disc[d].target].chan = "open"
    /\ disc' = [disc EXCEPT ![d].pending = @ \ {i}]
    /\ UNCHANGED <<cfgVars, pubVars, connection, channel, bindings, connected,
                   conn, unbinds, sub>>

\* An unbindQueue fails: Promise.all rejects, the chain skips to its catch
\* (line 188), which logs the error; the promise of disconnect() resolves.
UnbindFail(d, i) ==
    /\ disc[d].pc = "unbinding"
    /\ i \in disc[d].pending
    /\ disc' = [disc EXCEPT ![d].pc = "done", ![d].failed = TRUE]
    /\ UNCHANGED <<cfgVars, pubVars, connection, channel, bindings, connected,
                   conn, unbinds, sub>>

\* Whether some disconnect() call still waits for an unbindQueue.
UnbindOutstanding ==
    \E e \in DisconnectIds : disc[e].pc = "unbinding" /\ disc[e].pending # {}

\* Every unbind of call d has succeeded: .then(() => this.channel.close())
\* (line 181).  With this.channel null the call throws a TypeError, caught
\* at line 188.
CloseChannel(d) ==
    /\ disc[d].pc = "unbinding"
    /\ disc[d].pending = {}
    /\ IF channel = NULL
       THEN disc' = [disc EXCEPT ![d].pc = "done", ![d].failed = TRUE]
       ELSE disc' = [disc EXCEPT ![d].pc = "closingChannel",
                                 ![d].target = channel,
                                 ![d].chanClose = TRUE,
                                 ![d].early = UnbindOutstanding]
    /\ UNCHANGED <<cfgVars, pubVars, connection, channel, bindings, connected,
                   conn, unbinds, sub>>

\* channel.close() is answered: the channel's "close" handler runs (lines
\* 131-139) if it is registered; the continuation is still to run.
CloseChannelOk(d) ==
    /\ disc[d].pc = "closingChannel"
    /\ conn[disc[d].target].chan = "open"
    /\ IF conn[disc[d].target].listening
       THEN /\ connected' = FALSE
            /\ channel' = NULL
            /\ conn' = ChannelClosed(conn, disc[d].target)
       ELSE /\ conn' = [conn EXCEPT ![disc[d].target].chan = "closed"]
            /\ UNCHANGED <<connected, channel>>
    /\ disc' = [disc EXCEPT ![d].pc = "channelClosed"]
    /\ UNCHANGED <<cfgVars, pubVars, connection, bindings, unbinds, sub>>

\* .then(() => this.connection.close()) (line 182), on the connection the
\* adapter holds now; a TypeError, caught at line 188, when it holds none.
CloseConnection(d) ==
    /\ disc[d].pc = "channelClosed"
    /\ IF connection = NULL
       THEN disc' = [disc EXCEPT ![d].pc = "done", ![d].failed = TRUE]
       ELSE disc' = [disc EXCEPT ![d].pc = "closingConnection",
                                 ![d].target = connection,
                                 ![d].connClose = TRUE]
    /\ UNCHANGED <<cfgVars, pubVars, connection, channel, bindings, connected,
                   conn, unbinds, sub>>

\* channel.close() fails: caught at line 188.
CloseChannelFail(d) ==
    /\ disc[d].pc = "closingChannel"
    /\ disc' = [disc EXCEPT ![d].pc = "done", ![d].failed = TRUE]
    /\ UNCHANGED <<cfgVars, pubVars, connection, channel, bindings, connected,
                   conn, unbinds, sub>>

\* connection.close() is answered: the "close" handlers of the channel and
\* of the connection run (lines 131-139, 105-112); the continuation is
\* still to run.
CloseConnectionOk(d) ==
    /\ disc[d].pc = "closingConnection"
    /\ conn[disc[d].target].conn = "open"
    /\ LET r == ConnectionClosed(conn, channel, disc[d].target)
       IN  /\ connected' = r.connected
           /\ channel' = r.channel
           /\ conn' = r.conn
    /\ disc' = [disc EXCEPT ![d].pc = "connectionClosed"]
    /\ UNCHANGED <<cfgVars, pubVars, connection, bindings, unbinds, sub>>

\* The last continuation of disconnect() (lines 183-187): the handles are
\* cleared.
ClearHandles(d) ==
    /\ disc[d].pc = "connectionClosed"
    /\ bindings' = [isNull |-> TRUE, list |-> << >>]
    /\ channel' = NULL
    /\ connection' = NULL
    /\ disc' = [disc EXCEPT ![d].pc = "done", ![d].cleared = TRUE]
    /\ UNCHANGED <<cfgVars, pubVars, connected, conn, unbinds, sub>>

\* connection.close() fails: caught at line 188.
CloseConnectionFail(d) ==
    /\ disc[d].pc = "closingConnection"
    /\ disc' = [disc EXCEPT ![d].pc = "done", ![d].failed = TRUE]
    /\ UNCHANGED <<cfgVars, pubVars, connection, channel, bindings, connected,
                   conn, unbinds, sub>>

\* -------------------------------------------------------------- subscribe()

\* const queueName = `${this.prefix}.${cmd}.${this.nodeID}` (line 311).
BroadcastQueueName(cmd) == Prefix \o "." \o cmd \o "." \o NodeID

\* const bindingArgs = [queueName, topic, ""] (line 314).
BindingArgs(cmd) == <<BroadcastQueueName(cmd), getTopicName(cmd, NIL), "">>

\* The queue subscribe(cmd, nodeID) declares: the topic itself for a
\* node-addressed topic (lines 298, 302), this node's queue of the category
\* for a broadcast one (lines 311, 319).
SubscribeQueue(cmd, nodeID) ==
    IF nodeID # NIL THEN getTopicName(cmd, nodeID) ELSE BroadcastQueueName(cmd)

\* subscribe(cmd, nodeID) is called (lines 295-320).  Without a channel it
\* returns undefined.  For a node-addressed topic it issues assertQueue; for
\* a broadcast one it records the binding (a TypeError when this.bindings is
\* null) and issues assertExchange and assertQueue.
SubscribeCall(s, cmd, nodeID) ==
    /\ sub[s].pc = "idle"
    /\ \A j \in SubscribeIds : j < s => sub[j].pc # "idle"
    /\ IF channel = NULL
       THEN /\ sub' = [sub EXCEPT ![s].pc = "noop", ![s].cmd = cmd,
                                  ![s].nodeID = nodeID]
            /\ UNCHANGED <<bindings, unbinds>>
       ELSE IF nodeID # NIL
       THEN /\ sub' = [sub EXCEPT ![s] = [pc |-> "declaring", cmd |-> cmd,
                                          nodeID |-> nodeID,
                                          pending |-> {"assertQueue"},
                                          target |-> channel,
                                          queue |-> SubscribeQueue(cmd, nodeID),
                                          options |-> GetQueueOptions(cmd, opts).value,
                                          consumer |-> FALSE]]
            /\ UNCHANGED <<bindings, unbinds>>
       ELSE IF bindings.isNull
       THEN /\ sub' = [sub EXCEPT ![s].pc = "threw", ![s].cmd = cmd,
                                  ![s].nodeID = nodeID]
            /\ UNCHANGED <<bindings, unbinds>>
       ELSE /\ bindings' = [bindings EXCEPT !.list = Append(@, BindingArgs(cmd))]
            /\ unbinds' = Append(unbinds, 0)
            /\ sub' = [sub EXCEPT ![s] = [pc |-> "declaring", cmd |-> cmd,
                                          nodeID |-> nodeID,
                                          pending |-> {"assertExchange", "assertQueue"},
                                          target |-> channel,
                                          queue |-> SubscribeQueue(cmd, nodeID),
                                          options |-> GetQueueOptions(cmd, opts).value,
                                          consumer |-> FALSE]]
    /\ UNCHANGED <<cfgVars, pubVars, connection, channel, connected, conn, disc>>

\* The broker calls the continuation of the declarations issues (lines
\* 303-307 and 321-328).
UseCalls(nodeID) ==
    IF nodeID # NIL THEN {"consume"} ELSE {"bindQueue", "consume"}

\* A declaration of subscribe() call s succeeds.
DeclareOk(s, w) ==
    /\ sub[s].pc = "declaring"
    /\ w \in sub[s].pending
    /\ conn[sub[s].target].chan = "open"
    /\ sub' = [sub EXCEPT ![s].pending = @ \ {w}]
    /\ UNCHANGED <<cfgVars, pubVars, connection, channel, bindings, connected,
                   conn, disc, unbinds>>

\* Every declaration of subscribe() call s has succeeded and the
\* continuation runs (lines 303-307, 321-328): this.channel.consume, after
\* this.channel.bindQueue for a broadcast topic; a TypeError that rejects the
\* promise when this.channel is null.
SubscribeContinueBug(s) ==
    /\ sub[s].pc = "declaring"
    /\ sub[s].pending # {"assertExchange", "assertQueue"}
    /\ channel # NULL
    /\ sub' = [sub EXCEPT ![s].pc = "using",
                          ![s].pending = UseCalls(sub[s].nodeID),
                          ![s].target = channel]
    /\ UNCHANGED <<cfgVars, pubVars, connection, channel, bindings, connected,
                   conn, disc, unbinds>>

SubscribeContinue(s) ==
    /\ sub[s].pc = "declaring"
    /\ sub[s].pending = {}
    /\ IF channel = NULL
       THEN sub' = [sub EXCEPT ![s].pc = "typeError"]
       ELSE sub' = [sub EXCEPT ![s].pc = "using",
                               ![s].pending = UseCalls(sub[s].nodeID),
                               ![s].target = channel]
    /\ UNCHANGED <<cfgVars, pubVars, connection, channel, bindings, connected,
                   conn, disc, unbinds>>

\* A bindQueue or a consume of subscribe() call s succeeds: a consume
\* attaches the consumer, also when the bindQueue issued with it (lines
\* 321-328) has failed and the promise is rejected; after the last of the
\* two, with none failed, the promise resolves.
UseOk(s, w) ==
    /\ sub[s].pc \in {"using", "useRejected"}
    /\ w \in sub[s].pending
    /\ conn[sub[s].target].chan = "open"
    /\ sub' = [sub EXCEPT ![s].pending = @ \ {w},
                          ![s].consumer = @ \/ w = "consume",
                          ![s].pc = IF @ = "using" /\ sub[s].pending = {w}
                                    THEN "resolved" ELSE @]
    /\ UNCHANGED <<cfgVars, pubVars, connection, channel, bindings, connected,
                   conn, disc, unbinds>>

\* A broker call of subscribe() call s fails and the promise rejects.  A
\* failed declaration leaves the continuation out (pc "rejected"); a failed
\* bindQueue or consume leaves the other call of the pair to be answered
\* (pc "useRejected").
SubscribeFail(s, w) ==
    /\ sub[s].pc \in {"declaring", "using", "useRejected"}
    /\ w \in sub[s].pending
    /\ sub' = IF sub[s].pc = "declaring"
              THEN [sub EXCEPT ![s].pc = "rejected"]
              ELSE [sub EXCEPT ![s].pc = "useRejected", ![s].pending = @ \ {w}]
    /\ UNCHANGED <<cfgVars, pubVars, connection, channel, bindings, connected,
                   conn, disc, unbinds>>

BrokerCalls == {"assertExchange", "assertQueue", "bindQueue", "consume"}

\* ---------------------------------------------------------------- publish()

SendToQueue(queue, groups) ==
    [op |-> "sendToQueue", dest |-> queue, key |-> "", groups |-> groups]

ExchangePublish(exchange, key, groups) ==
    [op |-> "publish", dest |-> exchange, key |-> key, groups |-> groups]

\* The load-balanced event path is taken (lines 390, 395): an EVENT with no
\* target and a groups list that is not empty.
IsGroupedEvent(p) ==
    /\ p.type = PACKET_EVENT
    /\ p.target = NIL
    /\ ~p.groups.isNull
    /\ Len(p.groups.list) > 0

\* groups.forEach (lines 396-401): one send per group, to the group's queue,
\* of the packet serialized with its groups field set to that group alone.
GroupSendsBug(p) ==
    [i \in 1..Len(p.groups.list) |->
        SendToQueue(GroupQueueName(p.groups.list[i], p.event), p.groups)]

GroupSends(p) ==
    [i \in 1..Len(p.groups.list) |->
        SendToQueue(GroupQueueName(p.groups.list[i], p.event),
                    GroupList(<<p.groups.list[i]>>))]

\* The broker calls of publish(packet) on an open channel (lines 388-420).
PublishCallsFanout(p) ==
    IF IsGroupedEvent(p)
    THEN GroupSends(p)
    ELSE IF p.type = PACKET_REQUEST /\ p.target = NIL
    THEN << SendToQueue(ActionQueueName(p.action), p.groups) >>
    ELSE << ExchangePublish(getTopicName(p.type, NIL), "", p.groups) >>

PublishCallsBug(p) ==
    IF IsGroupedEvent(p)
    THEN GroupSends(p)
    ELSE IF p.type = PACKET_REQUEST
    THEN << SendToQueue(ActionQueueName(p.action), p.groups) >>
    ELSE IF p.target # NIL
    THEN << SendToQueue(getTopicName(p.type, p.target), p.groups) >>
    ELSE << ExchangePublish(getTopicName(p.type, p.target), "", p.groups) >>

PublishCalls(p) ==
    IF IsGroupedEvent(p)
    THEN GroupSends(p)
    ELSE IF p.type = PACKET_REQUEST /\ p.target = NIL
    THEN << SendToQueue(ActionQueueName(p.action), p.groups) >>
    ELSE IF p.target # NIL
    THEN << SendToQueue(getTopicName(p.type, p.target), p.groups) >>
    ELSE << ExchangePublish(getTopicName(p.type, p.target), "", p.groups) >>

\* The packet makes publish() declare the service queues (line 423; the two
\* early returns at lines 402 and 413 never apply to an INFO).
IsAnnouncementBug(p) == p.type = PACKET_INFO

IsAnnouncement(p) == p.type = PACKET_INFO /\ p.target = NIL

\* publish() returns without a broker call (line 386).
ChannelAbsentBug == channel = NULL /\ connection = NULL

ChannelAbsent == channel = NULL

\* publish(packet) is called (lines 385-427).  Without a channel it resolves
\* and does nothing.  An untargeted INFO also issues assertQueue for every
\* service queue (lines 337-373) and returns the promise of them all.
Publish(p) ==
    IF ChannelAbsent
    THEN /\ pub' = [called |-> TRUE, packet |-> p, on |-> NULL,
                    calls |-> << >>, result |-> "resolved"]
         /\ UNCHANGED <<cfgVars, lifeVars, info, msg>>
    ELSE IF IsAnnouncement(p)
    THEN \E i \in InfoIds :
            /\ info[i].pc = "idle"
            /\ \A j \in InfoIds : j < i => info[j].pc # "idle"
            /\ pub' = [called |-> TRUE, packet |-> p, on |-> channel,
                       calls |-> PublishCalls(p), result |-> "pending"]
            /\ info' = [info EXCEPT ![i] =
                          [pc |-> "pending",
                           q  |-> [n \in ServiceQueueNames |-> "asserting"],
                           on |-> [n \in ServiceQueueNames |-> channel]]]
            /\ UNCHANGED <<cfgVars, lifeVars, msg>>
    ELSE /\ pub' = [called |-> TRUE, packet |-> p, on |-> channel,
                    calls |-> PublishCalls(p), result |-> "resolved"]
         /\ UNCHANGED <<cfgVars, lifeVars, info, msg>>

\* The promise of an INFO publish once one more queue has been consumed:
\* Promise.all resolves when every queue has (lines 339, 371).
AfterConsume(t, n) ==
    IF t.pc = "pending" /\ \A o \in ServiceQueueNames \ {n} : t.q[o] = "consumed"
    THEN "resolved" ELSE t.pc

\* assertQueue of service queue n succeeds.
ServiceAssertOk(i, n) ==
    /\ info[i].q[n] = "asserting"
    /\ conn[info[i].on[n]].chan = "open"
    /\ info' = [info EXCEPT ![i].q[n] = "asserted"]
    /\ UNCHANGED <<cfgVars, lifeVars, pub, msg>>

\* The continuation of the assertQueue of service queue n runs:
\* .then(() => this.channel.consume(...)) (lines 349-353, 363-367), a
\* TypeError that rejects the promise of publish() when this.channel is null.
ServiceConsume(i, n) ==
    /\ info[i].q[n] = "asserted"
    /\ IF channel = NULL
       THEN info' = [info EXCEPT ![i].q[n] = "typeError",
                                 ![i].pc = IF @ = "pending" THEN "typeError" ELSE @]
       ELSE info' = [info EXCEPT ![i].q[n] = "consuming", ![i].on[n] = channel]
    /\ UNCHANGED <<cfgVars, lifeVars, pub, msg>>

\* consume of service queue n succeeds: an acknowledging consumer
\* (_consumeCB(cmd, true)) is attached to it.
ServiceConsumeOk(i, n) ==
    /\ info[i].q[n] = "consuming"
    /\ conn[info[i].on[n]].chan = "open"
    /\ info' = [info EXCEPT ![i].q[n] = "consumed", ![i].pc = AfterConsume(info[i], n)]
    /\ UNCHANGED <<cfgVars, lifeVars, pub, msg>>

\* assertQueue or consume of service queue n fails: the promise rejects.
ServiceFail(i, n) ==
    /\ info[i].q[n] \in {"asserting", "consuming"}
    /\ info' = [info EXCEPT ![i].q[n] = "failed",
                            ![i].pc = IF @ = "pending" THEN "rejected" ELSE @]
    /\ UNCHANGED <<cfgVars, lifeVars, pub, msg>>

\* ------------------------------------------------------------- _consumeCB()

\* The channels on which a consumer built with needAck is attached: the
\* acknowledging consumers of the service queues (lines 351, 365), the
\* others those of subscribe() (lines 305, 325).
ConsumerChannels(needAck) ==
    { c \in ConnectIds :
        /\ conn[c].chan = "open"
        /\ IF needAck
           THEN \E i \in InfoIds, n \in ServiceQueueNames :
                    info[i].q[n] = "consumed" /\ info[i].on[n] = c
           ELSE \E s \in SubscribeIds :
                    sub[s].target = c /\ sub[s].consumer }

\* this.channel.ack(msg) or this.channel.nack(msg) is issued on the channel
\* the adapter holds now.
Acked(r)  == [r EXCEPT !.acks = @ + 1, !.ackOn = channel]
Nacked(r) == [r EXCEPT !.nacks = @ + 1, !.nackOn = channel]

\* The catch of the handler's promise (lines 252-256): the error is logged
\* and, with a channel, the message is nacked; a nack that throws leaves the
\* returned promise rejected.
CaughtBug(r, nackThrows) ==
    [Nacked(r) EXCEPT !.pc = IF nackThrows THEN "unhandled" ELSE "done"]

Caught(r, nackThrows) ==
    IF channel = NULL
    THEN [r EXCEPT !.pc = "done"]
    ELSE [Nacked(r) EXCEPT !.pc = IF nackThrows THEN "unhandled" ELSE "done"]

\* The then of the handler's promise (lines 248-251): with a channel the
\* message is acked; an ack that throws rejects the promise the catch is
\* attached to, and the catch runs later.
CompletedBug(r, ackThrows) == [r EXCEPT !.pc = "done"]

Completed(r, ackThrows) ==
    IF channel = NULL
    THEN [r EXCEPT !.pc = "done"]
    ELSE [Acked(r) EXCEPT !.pc = IF ackThrows THEN "ackThrew" ELSE "done"]

\* The handler returned something that is no promise (lines 257-259): with
\* needAck and a channel the message is acked at once; an ack that throws
\* leaves the callback as an exception.
Returned(r, ackThrows) ==
    IF r.needAck /\ channel # NULL
    THEN [Acked(r) EXCEPT !.pc = IF ackThrows THEN "threw" ELSE "done"]
    ELSE [r EXCEPT !.pc = "done"]

\* A message reaches the callback of a consumer (lines 239-261): the message
\* handler is called and throws, returns a value, or returns a promise.  An
\* exception of the handler leaves the callback.
Deliver(m, needAck, kind, ackThrows) ==
    /\ msg[m].pc = "idle"
    /\ \A j \in MsgIds : j < m => msg[j].pc # "idle"
    /\ \E c \in ConsumerChannels(needAck) :
         LET r == [msg[m] EXCEPT !.needAck = needAck, !.kind = kind, !.from = c]
         IN  msg' = [msg EXCEPT ![m] =
                CASE kind = "throws"  -> [r EXCEPT !.pc = "threw"]
                  [] kind = "value"   -> Returned(r, ackThrows)
                  [] kind = "promise" ->
                        IF needAck THEN [r EXCEPT !.pc = "handling"]
                                   ELSE [r EXCEPT !.pc = "done"]]
    /\ UNCHANGED <<cfgVars, lifeVars, pub, info>>

\* The handler's promise resolves: the then callback (lines 248-251).
HandlerResolves(m, ackThrows) ==
    /\ msg[m].pc = "handling"
    /\ msg' = [msg EXCEPT ![m] =
                 Completed([@ EXCEPT !.result = "resolved"], ackThrows)]
    /\ UNCHANGED <<cfgVars, lifeVars, pub, info>>

\* The catch callback (lines 252-256) after an ack that threw.
AckCaught(m, nackThrows) ==
    /\ msg[m].pc = "ackThrew"
    /\ msg' = [msg EXCEPT ![m] = Caught(@, nackThrows)]
    /\ UNCHANGED <<cfgVars, lifeVars, pub, info>>

\* The handler's promise rejects: the catch callback (lines 252-256).
HandlerRejects(m, nackThrows) ==
    /\ msg[m].pc = "handling"
    /\ msg' = [msg EXCEPT ![m] =
                 Caught([@ EXCEPT !.result = "rejected"], nackThrows)]
    /\ UNCHANGED <<cfgVars, lifeVars, pub, info>>

HandlerKinds == {"throws", "value", "promise"}

\* ------------------------------------------------------------- the adapter

\* connect() calls K and the events of their connections and channels.
Connecting(K) ==
    \E k \in K :
        \/ ConnectCall(k)
        \/ ConnectOk(k)
        \/ ConnectFail(k)
        \/ CreateChannelOk(k)
        \/ \E prefetchThrows \in BOOLEAN : ChannelCreated(k, prefetchThrows)
        \/ ChannelCreatedCatch(k)
        \/ AfterConnectOk(k)
        \/ CreateChannelFail(k)
        \/ ConnectionError(k)
        \/ ChannelError(k)
        \/ ChannelClose(k)
        \/ ConnectionClose(k)

\* connect() calls K whose broker calls succeed and the close events of
\* their connections and channels: the steps that set and clear
\* this.channel.
Opening(K) ==
    \E k \in K :
        \/ ConnectCall(k)
        \/ ConnectOk(k)
        \/ CreateChannelOk(k)
        \/ ChannelCreated(k, FALSE)
        \/ AfterConnectOk(k)
        \/ ChannelClose(k)
        \/ ConnectionClose(k)

\* connect() calls K whose broker calls succeed and the close events of
\* their channels: the steps that give and take the channel handle that
\* publish() tests.
Holding(K) ==
    \E k \in K :
        \/ ConnectCall(k)
        \/ ConnectOk(k)
        \/ CreateChannelOk(k)
        \/ ChannelCreated(k, FALSE)
        \/ ChannelClose(k)

\* disconnect() calls D past their unbinds.
Closing(D) ==
    \E d \in D :
        \/ DisconnectCall(d)
        \/ CloseChannel(d)
        \/ CloseChannelOk(d)
        \/ CloseChannelFail(d)
        \/ CloseConnection(d)
        \/ CloseConnectionOk(d)
        \/ CloseConnectionFail(d)
        \/ ClearHandles(d)

\* The replies to the unbinds of disconnect() calls D.
Unbinding(D) ==
    \E d \in D, i \in SubscribeIds : UnbindOk(d, i) \/ UnbindFail(d, i)

\* subscribe() calls S, to the categories C.
Subscribing(S, C) ==
    \E s \in S :
        \/ \E cmd \in C, nodeID \in SubscribeNodeIDs :
              SubscribeCall(s, cmd, nodeID)
        \/ SubscribeContinue(s)
        \/ \E w \in BrokerCalls :
              DeclareOk(s, w) \/ UseOk(s, w) \/ SubscribeFail(s, w)

\* The service-queue declarations of the untargeted INFO publishes.
Declaring ==
    \E i \in InfoIds, n \in ServiceQueueNames :
        \/ ServiceAssertOk(i, n)
        \/ ServiceConsume(i, n)
        \/ ServiceConsumeOk(i, n)
        \/ ServiceFail(i, n)

\* The callbacks of the consumers.
Consuming ==
    \E m \in MsgIds :
        \/ \E needAck \in BOOLEAN, kind \in HandlerKinds, ackThrows \in BOOLEAN :
              Deliver(m, needAck, kind, ackThrows)
        \/ \E ackThrows \in BOOLEAN : HandlerResolves(m, ackThrows)
        \/ \E nackThrows \in BOOLEAN :
              HandlerRejects(m, nackThrows) \/ AckCaught(m, nackThrows)

Next ==
    \/ Connecting(ConnectIds)
    \/ Closing(DisconnectIds)
    \/ Unbinding(DisconnectIds)
    \/ Subscribing(SubscribeIds, SubscribeCmds)
    \/ \E p \in Packets : Publish(p)
    \/ Declaring
    \/ Consuming

Spec == Init /\ [][Next]_vars

\* ------------------------------------------- the parts of the adapter alone

\* The connection manager: connect() and disconnect() with no subscription.
NextConnection ==
    \/ Connecting(ConnectIds)
    \/ Closing(DisconnectIds)

SpecConnection == Init /\ [][NextConnection]_vars

\* Reconnection: connect() again and again, broker events, and disconnect().
NextReconnect ==
    \/ Connecting(ConnectIds)
    \/ Closing(CloseIds)

SpecReconnect == Init /\ [][NextReconnect]_vars

\* One session: connect() once, its broker calls succeeding, subscribe() to
\* a broadcast category, with this node's id or with none, and disconnect().
NextSession ==
    \/ Opening(SessionIds)
    \/ Subscribing(SubscribeIds, BroadcastCmds)
    \/ Closing(DisconnectIds)
    \/ Unbinding(DisconnectIds)

SpecSession == Init /\ [][NextSession]_vars

\* The lifecycle: connect(), subscribe() to a broadcast category,
\* disconnect(), and all of it again.
NextLifecycle ==
    \/ Opening(ConnectIds)
    \/ \E s \in SubscribeIds : SubscribeCall(s, PACKET_INFO, NIL)
    \/ Closing(DisconnectIds)
    \/ Unbinding(DisconnectIds)

SpecLifecycle == Init /\ [][NextLifecycle]_vars

\* The unwinding: connect() once, subscribe() to a category whose queue
\* expires or to one whose queue does not, and disconnect() once.
NextUnwind ==
    \/ Opening(SessionIds)
    \/ Subscribing(SubscribeIds, SubscribeCmds)
    \/ Closing(CloseIds)
    \/ Unbinding(CloseIds)

SpecUnwind == Init /\ [][NextUnwind]_vars

\* The subscriber: connect() once and subscribe().
NextSubscribe ==
    \/ Connecting(SessionIds)
    \/ Subscribing(SubscribeIds, SubscribeCmds)

SpecSubscribe == Init /\ [][NextSubscribe]_vars

\* The publisher: connect() once, its broker calls succeeding, and
\* publish().  The broker's replies to the
\* service queue declarations that an untargeted INFO starts are steps of
\* the consumer below.
NextPublish ==
    \/ Holding(SessionIds)
    \/ \E p \in Packets : Publish(p)

SpecPublish == Init /\ [][NextPublish]_vars

\* The announcer: connect() once, its broker calls succeeding, publish() and
\* the broker's replies to the declarations of the service queues.
NextAnnounce ==
    \/ Opening(SessionIds)
    \/ \E p \in Packets : Publish(p)
    \/ Declaring

SpecAnnounce == Init /\ [][NextAnnounce]_vars

\* The topology announcement: an INFO packet with no target.
Announcement ==
    [type |-> PACKET_INFO, target |-> NIL, groups |-> NoGroups,
     action |-> "", event |-> ""]

\* The acknowledging consumers: connect() once, the announcement that
\* attaches them, and their callbacks.
NextConsume ==
    \/ Connecting(SessionIds)
    \/ Publish(Announcement)
    \/ Declaring
    \/ Consuming

SpecConsume == Init /\ [][NextConsume]_vars

\* The acknowledging consumers across a reconnection: connect() again after
\* a close event, one announcement, and the callbacks of its consumers.
NextReconsume ==
    \/ Opening(ConnectIds)
    \/ (info[1].pc = "idle" /\ Publish(Announcement))
    \/ Declaring
    \/ Consuming

SpecReconsume == Init /\ [][NextReconsume]_vars

\* A request and its response between two nodes that run this adapter: the
\* node that hosts the action sum announces itself, declares and consumes
\* the action's queue; the requester publishes a REQUEST for sum with no
\* target; the host publishes the RESPONSE with the requester as target.
ScenarioRequest ==
    [type |-> PACKET_REQUEST, target |-> NIL, groups |-> NoGroups,
     action |-> "sum", event |-> ""]

ScenarioResponse ==
    [type |-> PACKET_RESPONSE, target |-> "B", groups |-> NoGroups,
     action |-> "", event |-> ""]

ScenarioPackets == {Announcement, ScenarioRequest, ScenarioResponse}

NextScenario ==
    \/ Connecting(SessionIds)
    \/ \E p \in ScenarioPackets : Publish(p)
    \/ Declaring
    \/ Consuming

SpecScenario == Init /\ [][NextScenario]_vars

\* ------------------------------------------------- the queue-options model
InitOptions ==
    /\ opts \in [eventTimeToLive : EventTtlValues,
                 queueOptions : QueueOptionValues]
    /\ InitAdapter

\* A call of _getQueueOptions(key).
QueryOptions(key) ==
    /\ optQuery' = [key |-> key] @@ GetQueueOptions(key, opts)
    /\ UNCHANGED <<opts, pubVars, lifeVars>>

NextOptions == \E key \in OptionKeys : QueryOptions(key)

SpecOptions == InitOptions /\ [][NextOptions]_vars

\* ------------------------------------------------------------------ claims

\* A message of an acknowledging consumer whose handler returned a promise
\* that has completed while the channel that delivered it stayed open.
AsyncCompleted(m) ==
    /\ msg[m].needAck
    /\ msg[m].kind = "promise"
    /\ msg[m].pc \in {"done", "unhandled"}
    /\ channel = msg[m].from
    /\ conn[msg[m].from].chan = "open"

\* C1: for a message of an acknowledging consumer whose handler returns a
\* promise, while the channel stays open: a failed promise gives exactly one
\* nack and no ack, a successful one exactly one ack and no nack, also when
\* the ack call itself fails.
C1_AckXorNack ==
    \A m \in MsgIds :
        AsyncCompleted(m) =>
            /\ msg[m].result = "rejected" => msg[m].nacks = 1 /\ msg[m].acks = 0
            /\ msg[m].result = "resolved" => msg[m].acks = 1 /\ msg[m].nacks = 0

\* C2: a handler of an acknowledging consumer that throws synchronously has
\* its message nacked exactly once and never acked, and the exception does
\* not leave the consume callback.
C2_SyncThrowIsNacked ==
    \A m \in MsgIds :
        (msg[m].needAck /\ msg[m].kind = "throws" /\ msg[m].pc # "idle") =>
            /\ msg[m].nacks = 1
            /\ msg[m].acks = 0
            /\ msg[m].pc # "threw"

\* C3: publish() called while the channel handle is absent, whatever the
\* packet, resolves, issues no broker call and changes nothing of the
\* adapter: no service queue is declared, no handle or binding is touched.
C3_PublishWithoutChannel ==
    [][ (channel = NULL /\ pub' # pub) =>
            /\ pub'.called
            /\ pub'.calls = << >>
            /\ pub'.result = "resolved"
            /\ UNCHANGED <<cfgVars, lifeVars, info, msg>> ]_vars

\* An untargeted INFO, the packet that otherwise declares the service
\* queues, was published while the channel was absent.
C3_Witness ==
    /\ pub.called
    /\ pub.on = NULL
    /\ IsAnnouncement(pub.packet)
    /\ connection # NULL

\* C4: a subscribe() or publish() call in flight when the channel disappears
\* finishes with a completed result: it never raises and never rejects.
C4_NoRaiseWhenChannelGone ==
    /\ \A s \in SubscribeIds : sub[s].pc # "typeError"
    /\ \A i \in InfoIds : info[i].pc # "typeError"

\* The subscribe(category, null) calls that reached the binding registry:
\* those made with a channel.
BroadcastCalls ==
    { s \in SubscribeIds :
        sub[s].pc \notin {"idle", "noop"} /\ sub[s].nodeID = NIL }

\* C5: every subscribe(category, null) call records exactly one binding, and
\* under any number and interleaving of disconnect() calls unbindQueue is
\* never issued a second time for a recorded binding, and channel.close is
\* never issued while an unbind is outstanding.
C5_UnbindExactlyOnce ==
    /\ Len(unbinds) = Cardinality(BroadcastCalls)
    /\ \A i \in 1..Len(unbinds) : unbinds[i] <= 1
    /\ \A d \in DisconnectIds : ~disc[d].early

\* C6: when a step of disconnect() fails the error is swallowed, the
\* remaining steps still run (channel close, then connection close) and the
\* channel and connection handles end up cleared.
C6_TeardownBestEffort ==
    \A d \in DisconnectIds :
        (disc[d].pc = "done" /\ disc[d].failed) =>
            /\ disc[d].chanClose
            /\ disc[d].connClose
            /\ channel = NULL
            /\ connection = NULL

\* The last publish() was of an EVENT with no target and a groups list that
\* is not empty, on an open channel.
GroupedEventPublished ==
    /\ pub.called
    /\ pub.on # NULL
    /\ pub.packet.type = PACKET_EVENT
    /\ pub.packet.target = NIL
    /\ ~pub.packet.groups.isNull
    /\ Len(pub.packet.groups.list) > 0

\* The sends of a grouped EVENT: one per group, in order, to the queue the
\* group and the event name under the segment lb, with the groups field of
\* the payload rewritten to that group alone; and no exchange publish.
GroupedEventSends(lb) ==
    LET g == pub.packet.groups.list
    IN  /\ Len(pub.calls) = Len(g)
        /\ \A i \in 1..Len(g) :
              /\ pub.calls[i].op = "sendToQueue"
              /\ pub.calls[i].dest =
                    Prefix \o "." \o lb \o "." \o g[i] \o "." \o pub.packet.event
              /\ pub.calls[i].groups = GroupList(<<g[i]>>)

\* C7, as stated: an EVENT with no target and n groups gives exactly n queue
\* sends and no exchange publish, the i-th to {prefix}.EVENT-LB.{group_i}.
\* {eventName} with the payload's groups field [group_i].
C7_Original == GroupedEventPublished => GroupedEventSends("EVENT-LB")

\* C7, amended: the same, to the queue {prefix}.EVENTB.{group_i}.{eventName}
\* (the category followed by the letter B).
C7_GroupedEvent ==
    GroupedEventPublished => GroupedEventSends(PACKET_EVENT \o "B")

\* An EVENT for the groups g1 and g2 was published on an open channel.
C7_Witness ==
    /\ GroupedEventPublished
    /\ pub.packet.groups.list = <<"g1", "g2">>
    /\ Len(pub.calls) = 2

\* The last publish() was of a REQUEST on an open channel.
RequestPublished ==
    pub.called /\ pub.on # NULL /\ pub.packet.type = PACKET_REQUEST

\* The send of a REQUEST: with no target one queue send to the action's
\* shared queue under the segment lb and no exchange publish; with a target
\* one queue send to that node's queue, none to an action queue or exchange.
RequestSend(lb) ==
    /\ Len(pub.calls) = 1
    /\ pub.calls[1].op = "sendToQueue"
    /\ pub.calls[1].dest =
          IF pub.packet.target = NIL
          THEN Prefix \o "." \o lb \o "." \o pub.packet.action
          ELSE Prefix \o "." \o PACKET_REQUEST \o "." \o pub.packet.target

\* C8, as stated: a REQUEST with no target and action a gives exactly one
\* queue send, to {prefix}.REQUEST-LB.{a}, and no exchange publish; with a
\* target, exactly one queue send to that node's dedicated queue.
C8_Original == RequestPublished => RequestSend("REQUEST-LB")

\* C8, amended: the same, to the shared queue {prefix}.REQUESTB.{a} (the
\* category followed by the letter B).
C8_Request == RequestPublished => RequestSend(PACKET_REQUEST \o "B")

\* A REQUEST for the action sum with no target was published on an open
\* channel and gave one broker call.
C8_Witness ==
    /\ RequestPublished
    /\ pub.packet.target = NIL
    /\ pub.packet.action = "sum"
    /\ Len(pub.calls) = 1

\* A policy that never expires: no time-to-live and no auto-delete.
NonExpiring(o) ==
    /\ "messageTtl" \notin DOMAIN o
    /\ ~("autoDelete" \in DOMAIN o /\ o["autoDelete"])

\* A policy that expires after ttl and auto-deletes.
Expiring(o, ttl) ==
    /\ "messageTtl" \in DOMAIN o /\ o["messageTtl"] = ttl
    /\ "autoDelete" \in DOMAIN o /\ o["autoDelete"]

\* C9, as stated: _getQueueOptions is total over the categories and the
\* keys REQUEST-LB and EVENT-LB; it returns a policy that never expires
\* exactly for REQUEST, RESPONSE, REQUEST-LB and EVENT-LB, and for every
\* other category autoDelete and a positive expiry: 5000 ms for the control
\* categories, the configured event time-to-live for EVENT.
C9_Original ==
    (optQuery.key \in Categories \cup {"REQUEST-LB", "EVENT-LB"}) =>
        /\ ~optQuery.threw
        /\ NonExpiring(optQuery.value) <=>
              optQuery.key \in {PACKET_REQUEST, PACKET_RESPONSE,
                                "REQUEST-LB", "EVENT-LB"}
        /\ optQuery.key \notin {PACKET_REQUEST, PACKET_RESPONSE,
                                "REQUEST-LB", "EVENT-LB"} =>
              /\ Expiring(optQuery.value,
                          IF optQuery.key = PACKET_EVENT
                          THEN opts.eventTimeToLive ELSE 5000)
              /\ optQuery.value["messageTtl"] > 0

\* The policy of a key before the configured overrides: none for REQUEST,
\* RESPONSE and the synthetic key of the grouped event queues (EVENT followed
\* by LB); otherwise autoDelete and an expiry of 5000 ms, or for EVENT of the
\* configured event time-to-live.
BasePolicy(key) ==
    IF key \in {PACKET_REQUEST, PACKET_RESPONSE, PACKET_EVENT \o "LB"}
    THEN EmptyObj
    ELSE [messageTtl |-> IF key = PACKET_EVENT THEN opts.eventTimeToLive ELSE 5000,
          autoDelete |-> TRUE]

\* v is base with the entries of over added or replaced.
Overridden(base, over, v) ==
    /\ DOMAIN v = DOMAIN base \cup DOMAIN over
    /\ \A k \in DOMAIN over : v[k] = over[k]
    /\ \A k \in DOMAIN base \ DOMAIN over : v[k] = base[k]

\* C9, amended: _getQueueOptions is defined for the ten categories and for
\* the one synthetic key EVENT followed by LB, and throws for any other key,
\* REQUEST-LB and EVENT-LB included.  Where defined it returns the configured
\* queueOptions laid over a base policy: none (no expiry, no autoDelete) for
\* REQUEST, RESPONSE and the synthetic key, and for every other category
\* autoDelete = true with an expiry of 5000 ms (control categories) or of the
\* configured event time-to-live (EVENT).  With no override configured the
\* result never expires exactly for REQUEST, RESPONSE and the synthetic key.
C9_QueueOptions ==
    (optQuery.key # "") =>
        /\ optQuery.threw <=>
              optQuery.key \notin Categories \cup {PACKET_EVENT \o "LB"}
        /\ ~optQuery.threw =>
              Overridden(BasePolicy(optQuery.key), opts.queueOptions,
                         optQuery.value)
        /\ (~optQuery.threw /\ opts.queueOptions = EmptyObj) =>
              (NonExpiring(optQuery.value) <=>
                  optQuery.key \in {PACKET_REQUEST, PACKET_RESPONSE,
                                    PACKET_EVENT \o "LB"})

\* The options of the EVENT queues were asked for under an event
\* time-to-live of 1000 ms and no override.
C9_Witness ==
    /\ optQuery.key = PACKET_EVENT
    /\ ~optQuery.threw
    /\ opts.queueOptions = EmptyObj
    /\ opts.eventTimeToLive = 1000
    /\ optQuery.value = [messageTtl |-> 1000, autoDelete |-> TRUE]

\* C10: whatever connect() and disconnect() calls and broker events have
\* happened, at most one connection and at most one channel are open, and
\* every open connection is the one the adapter references.
C10_OneLiveConnection ==
    /\ Cardinality({ k \in ConnectIds : conn[k].conn = "open" }) <= 1
    /\ Cardinality({ k \in ConnectIds : conn[k].chan = "open" }) <= 1
    /\ \A k \in ConnectIds : conn[k].conn = "open" => connection = k

\* C11: a channel never outlives its connection: whenever the adapter holds
\* a channel handle, that channel is open and the connection it was opened
\* on is still open.  The continuation of createChannel() stores the channel
\* whatever has become of it since the broker's answer.
C11_ChannelWithinConnection ==
    channel # NULL =>
        /\ conn[channel].chan = "open"
        /\ conn[channel].conn = "open"

\* A message of an acknowledging consumer whose handler has succeeded (its
\* promise resolved, or it returned a value) while the channel that
\* delivered it stayed open.
HandledWell(m) ==
    /\ msg[m].needAck
    /\ \/ msg[m].kind = "promise" /\ msg[m].result = "resolved"
       \/ msg[m].kind = "value"
    /\ msg[m].pc \in {"done", "unhandled", "threw"}
    /\ channel = msg[m].from
    /\ conn[msg[m].from].chan = "open"

\* The request scenario, the shared queue of the action sum being named
\* with the segment lb: the REQUEST for sum with no target is sent once to
\* that queue, which is among the queues the host declares and, once its
\* announcement has completed, consumes; a message whose handler succeeds is
\* acked exactly once; the RESPONSE with target B is sent once to the queue
\* a node B declares for its responses, whose options are the configured
\* queueOptions alone (none by default: no expiry, no autoDelete).
RequestScenario(lb) ==
    LET shared == Prefix \o "." \o lb \o ".sum"
        reply  == Prefix \o "." \o PACKET_RESPONSE \o ".B"
    IN  /\ (pub.called /\ pub.on # NULL /\ pub.packet = ScenarioRequest) =>
              pub.calls = << SendToQueue(shared, NoGroups) >>
        /\ \A i \in InfoIds :
              info[i].pc # "idle" =>
                  /\ shared \in DOMAIN info[i].q
                  /\ info[i].pc = "resolved" => info[i].q[shared] = "consumed"
        /\ \A m \in MsgIds : HandledWell(m) => msg[m].acks = 1
        /\ (pub.called /\ pub.on # NULL /\ pub.packet = ScenarioResponse) =>
              /\ pub.calls = << SendToQueue(reply, NoGroups) >>
              /\ SubscribeQueue(PACKET_RESPONSE, "B") = reply
              /\ GetQueueOptions(PACKET_RESPONSE, opts).value = opts.queueOptions
              /\ opts.queueOptions = EmptyObj =>
                    NonExpiring(GetQueueOptions(PACKET_RESPONSE, opts).value)

\* C12, as stated: in the request scenario the REQUEST for sum lands on the
\* shared queue {prefix}.REQUEST-LB.sum that the host declared and consumes,
\* a succeeding handler acks once, and the RESPONSE with target B lands on
\* {prefix}.RESPONSE.B, declared with no expiry options.
C12_Original == RequestScenario("REQUEST-LB")

\* C12, amended: the same with the shared queue named {prefix}.REQUESTB.sum
\* (the category followed by the letter B), the ack being issued when the
\* channel is still held at the handler's completion.
C12_RequestScenario == RequestScenario(PACKET_REQUEST \o "B")

\* The host's announcement has completed, a message was handled with
\* success and acked once, and the RESPONSE for B was published.
C12_Witness ==
    /\ info[1].pc = "resolved"
    /\ msg[1].kind = "promise" /\ msg[1].result = "resolved" /\ msg[1].acks = 1
    /\ pub.called /\ pub.on # NULL /\ pub.packet = ScenarioResponse

\* The consumers this node has attached to service queue n on channel c: one
\* for every consume that succeeded there.
AttachedConsumers(n, c) ==
    Cardinality({ i \in InfoIds : info[i].q[n] = "consumed" /\ info[i].on[n] = c })

\* C13: after any number of untargeted INFO publishes on the same channel,
\* every action or group-event queue has at most the one acknowledging
\* consumer that a single announcement attaches.
C13_OneConsumerPerQueue ==
    \A c \in ConnectIds : \A n \in ServiceQueueNames :
        conn[c].chan = "open" => AttachedConsumers(n, c) <= 1

\* The service queues of the one local service math, which hosts the action
\* sum and the event user.created with no configured group.
ExpectedServiceQueues ==
    { Prefix \o "." \o PACKET_REQUEST \o "B.sum",
      Prefix \o "." \o PACKET_EVENT \o "B.math.user.created" }

\* C14: with an open channel publish() starts the declaration of the
\* service queues exactly for an INFO with no target; the INFO is then
\* published once to the INFO fanout exchange and assertQueue is issued for
\* the queue of every local action and every local event (its group the
\* configured one, else the service name); a consumer is attached only to a
\* declared queue and is built with needAck = true.
C14_AnnouncementBuildsTopology ==
    /\ [][ /\ (pub' # pub /\ channel # NULL) =>
                (info' # info <=> IsAnnouncement(pub'.packet))
           /\ \A i \in InfoIds :
                (info[i].pc = "idle" /\ info'[i].pc # "idle") =>
                    /\ channel # NULL
                    /\ pub'.packet.type = PACKET_INFO
                    /\ pub'.packet.target = NIL
                    /\ pub'.calls =
                          << ExchangePublish(Prefix \o "." \o PACKET_INFO, "", NoGroups) >>
                    /\ DOMAIN info'[i].q = ExpectedServiceQueues
                    /\ \A n \in ExpectedServiceQueues :
                          info'[i].q[n] = "asserting" /\ info'[i].on[n] = channel
           /\ \A i \in InfoIds : \A n \in ServiceQueueNames :
                (info'[i].q[n] = "consuming" /\ info[i].q[n] # "consuming") =>
                    info[i].q[n] = "asserted" ]_vars
    /\ [](/\ \A r \in ServiceQueues : r.needAck
          /\ \A g \in GroupNames :
                /\ EventGroup([name |-> "math"], [name |-> "e", group |-> g]) = g
                /\ EventGroup([name |-> "math"], [name |-> "e", group |-> NIL]) = "math")

\* An announcement was published on an open channel and every service queue
\* has been declared and has its consumer.
C14_Witness ==
    /\ pub.called /\ pub.on # NULL /\ pub.packet = Announcement
    /\ info[1].pc = "resolved"
    /\ \A n \in ExpectedServiceQueues : info[1].q[n] = "consumed"

\* C15: in every subscribe() call declaration precedes use.  A
\* node-addressed call issues assertQueue alone, records no binding, and
\* issues consume only once assertQueue has succeeded; a broadcast call
\* issues assertExchange and assertQueue, and bindQueue and consume only
\* once both have succeeded, so that no consumer is attached before; after
\* a failed declaration the call stays rejected and issues nothing more.
C15_DeclareBeforeUse ==
    [][ \A s \in SubscribeIds :
          /\ (sub[s].pc = "idle" /\ sub'[s].pc = "declaring") =>
                /\ sub'[s].pending =
                      IF sub'[s].nodeID # NIL
                      THEN {"assertQueue"}
                      ELSE {"assertExchange", "assertQueue"}
                /\ sub'[s].nodeID # NIL => bindings' = bindings
          /\ (sub[s].pc = "declaring" /\ sub'[s].pc = "declaring") =>
                sub'[s].pending \subseteq sub[s].pending
          /\ (sub[s].pc # "using" /\ sub'[s].pc = "using") =>
                /\ sub[s].pc = "declaring"
                /\ sub[s].pending = {}
                /\ sub'[s].pending =
                      IF sub[s].nodeID # NIL
                      THEN {"consume"}
                      ELSE {"bindQueue", "consume"}
          /\ (sub[s].pc # "useRejected" /\ sub'[s].pc = "useRejected") =>
                sub[s].pc = "using"
          /\ (~sub[s].consumer /\ sub'[s].consumer) =>
                sub[s].pc \in {"using", "useRejected"}
          /\ sub[s].pc = "rejected" => sub'[s] = sub[s] ]_vars

\* A broadcast subscribe() call has bound and consumes its queue, and a
\* node-addressed one consumes its own.
C15_Witness ==
    \E s, t \in SubscribeIds :
        /\ sub[s].pc = "resolved" /\ sub[s].nodeID = NIL
        /\ sub[t].pc = "resolved" /\ sub[t].nodeID # NIL
        /\ Len(bindings.list) = 1

\* C16: when the adapter holds no channel at the moment the result of the
\* handler of an acknowledging consumer completes, with success or with
\* failure, neither ack nor nack is issued and nothing is raised; the same
\* for a handler that returns a value while no channel is held, and for the
\* catch that follows an ack that threw.
C16_SkipWhenChannelGone ==
    [][ \A m \in MsgIds :
          /\ (channel = NULL /\ msg[m].pc = "handling" /\ msg'[m].pc # "handling") =>
                /\ msg'[m].acks = 0
                /\ msg'[m].nacks = 0
                /\ msg'[m].pc = "done"
          /\ (channel = NULL /\ msg[m].pc = "idle" /\ msg'[m].pc # "idle"
                /\ msg'[m].needAck /\ msg'[m].kind = "value") =>
                /\ msg'[m].acks = 0
                /\ msg'[m].nacks = 0
                /\ msg'[m].pc = "done"
          /\ (channel = NULL /\ msg[m].pc = "ackThrew" /\ msg'[m].pc # "ackThrew") =>
                /\ msg'[m].nacks = 0
                /\ msg'[m].pc = "done" ]_vars

\* The handler of an acknowledging consumer failed after the channel had
\* gone and no channel was held: the message was neither acked nor nacked.
C16_Witness ==
    /\ msg[1].needAck
    /\ msg[1].kind = "promise"
    /\ msg[1].result = "rejected"
    /\ msg[1].pc = "done"
    /\ msg[1].acks = 0
    /\ msg[1].nacks = 0
    /\ conn[msg[1].from].chan = "closed"

\* The last publish() was made on an open channel, of a packet that is
\* neither an EVENT with no target and a groups list that is not empty nor a
\* REQUEST with no target.
PlainPublished ==
    /\ pub.called
    /\ pub.on # NULL
    /\ ~(/\ pub.packet.type = PACKET_EVENT
         /\ pub.packet.target = NIL
         /\ ~pub.packet.groups.isNull
         /\ Len(pub.packet.groups.list) > 0)
    /\ ~(pub.packet.type = PACKET_REQUEST /\ pub.packet.target = NIL)

\* C17: on an open channel such a packet gives exactly one broker call: with
\* a target a queue send to {prefix}.{category}.{target} and no exchange
\* publish, with no target a publish to the exchange {prefix}.{category}
\* with an empty routing key and no queue send.
C17_UnicastOrFanout ==
    PlainPublished =>
        /\ Len(pub.calls) = 1
        /\ pub.packet.target # NIL =>
              /\ pub.calls[1].op = "sendToQueue"
              /\ pub.calls[1].dest =
                    Prefix \o "." \o pub.packet.type \o "." \o pub.packet.target
        /\ pub.packet.target = NIL =>
              /\ pub.calls[1].op = "publish"
              /\ pub.calls[1].dest = Prefix \o "." \o pub.packet.type
              /\ pub.calls[1].key = ""

\* A HEARTBEAT for node B was published on an open channel and sent to the
\* queue of B.
C17_Witness ==
    /\ PlainPublished
    /\ pub.packet.type = PACKET_HEARTBEAT
    /\ pub.packet.target = "B"
    /\ pub.calls[1].op = "sendToQueue"

\* C18: an ack or a nack of a message is issued on the channel that
\* delivered the message, also when that channel has closed and a later
\* connect() has opened another one while the handler was running.
C18_AckOnDeliveringChannel ==
    \A m \in MsgIds :
        /\ msg[m].acks > 0 => msg[m].ackOn = msg[m].from
        /\ msg[m].nacks > 0 => msg[m].nackOn = msg[m].from

\* A disconnect() has completed and cleared the handles, and a connect()
\* has succeeded since: its channel is the open channel of the adapter.
Reopened ==
    /\ \E e \in DisconnectIds : disc[e].cleared
    /\ connection # NULL
    /\ channel # NULL
    /\ conn[channel].chan = "open"
    /\ conn[channel].promise = "resolved"

\* C19: after a completed disconnect() and a successful connect(),
\* subscribe(category, null) succeeds and records its binding, and a
\* following disconnect() issues the unbinds again.
C19_ReusableAfterDisconnect ==
    [][ /\ \A s \in SubscribeIds :
              (Reopened /\ sub[s].pc = "idle" /\ sub'[s].pc # "idle"
                        /\ sub'[s].nodeID = NIL) =>
                  /\ sub'[s].pc = "declaring"
                  /\ ~bindings'.isNull
                  /\ Len(bindings'.list) = Len(bindings.list) + 1
        /\ \A d \in DisconnectIds :
              (Reopened /\ disc[d].pc = "idle" /\ disc'[d].pc # "idle") =>
                  disc'[d].pc = "unbinding" ]_vars

\* The place in the binding registry of the binding subscribe() call s
\* recorded: the calls are made in the order of their numbers.
BindingIndex(s) ==
    Cardinality({ j \in 1..s : j \in BroadcastCalls /\ sub[j].pc # "threw" })

\* The broker deletes a queue declared with these options, and its bindings
\* with it, when its last consumer goes.
AutoDeleted(o) == "autoDelete" \in DOMAIN o /\ o["autoDelete"]

\* C20: every binding this node establishes at the broker is unwound by
\* disconnect(): a bindQueue is never issued for a binding whose unbindQueue
\* disconnect() has already issued, so that no queue stays bound once
\* disconnect() has completed.  Stated for the queues the broker keeps when
\* the channel closes; it drops an autoDelete queue on its own.
C20_BoundBeforeUnwound ==
    [][ \A s \in SubscribeIds :
          (/\ sub[s].nodeID = NIL
           /\ sub[s].pc = "declaring"
           /\ sub'[s].pc = "using"
           /\ ~AutoDeleted(sub[s].options)) =>
              unbinds[BindingIndex(s)] = 0 ]_vars

============================================================================
